---- MODULE Spec2Model ----
(***************************************************************************)
(* code_tree (src/code_tree/src/main.rs): walks a directory, writes an     *)
(* indented listing of the entries and then the contents of the files      *)
(* whose extension is allowed into code_output.txt.                        *)
(*                                                                         *)
(* File names are sequences of one-character strings, so that the          *)
(* extension of a name is computed from its characters.  A path is the     *)
(* sequence of its components.  The directory tree below the root is a     *)
(* chain of nested entries (node k lies in node k-1) and two entries       *)
(* FileA, FileB directly in the root, plus the output file in the working  *)
(* directory when that directory lies in the tree.                         *)
(***************************************************************************)
EXTENDS Integers, Sequences, FiniteSets, TLC

VARIABLES
    rootName,    \* the root path given on the command line (one component)
    rootExists,  \* whether that path exists
    fs,          \* node -> [name, kind, content]; kind "none": no such entry
    cwd,         \* node of the working directory, Outside when not in the tree
    unreadable,  \* directories whose listing fails
    diskFull,    \* whether a write to the output file fails
    createFails, \* whether code_output.txt cannot be created or truncated
    pc,          \* position of the program
    args,        \* std::env::args()
    outExists,   \* whether code_output.txt exists
    output,      \* the lines of code_output.txt
    walker,      \* state of the WalkDir iterator of the running pass
    cur,         \* the file whose header was just written
    err,         \* the io::Error that process_directory returned with
    stdout,
    stderr,
    exitCode,    \* -1 while the process runs
    run,         \* number of the current invocation
    startedWith, \* per invocation, whether code_output.txt existed when it began
    prevOutput   \* code_output.txt as the previous invocation left it

vars == <<rootName, rootExists, fs, cwd, unreadable, diskFull, createFails, pc,
          args, outExists, output, walker, cur, err, stdout, stderr, exitCode,
          run, startedWith, prevOutput>>

envVars == <<rootName, rootExists, fs, cwd, createFails, startedWith>>

-----------------------------------------------------------------------------
(* Bounds *)

MaxDepth == 2    \* depth of the chain of nested entries
MaxFaults == 1   \* unreadable directories, a full disk, a read-only directory
MaxArgs == 3     \* largest number of command-line words, command name included
MaxRuns == 2     \* invocations in a row

-----------------------------------------------------------------------------
(* Names *)

n_dot == <<".">>
n_proj == <<"p", "r", "o", "j">>
n_src == <<"s", "r", "c">>
n_a_rs == <<"a", ".", "r", "s">>
n_A_RS == <<"A", ".", "R", "S">>
n_b_txt == <<"b", ".", "t", "x", "t">>
n_c_js == <<"c", ".", "j", "s">>
n_dot_json == <<".", "j", "s", "o", "n">>
n_a_tar_gz == <<"a", ".", "t", "a", "r", ".", "g", "z">>
n_Makefile == <<"M", "a", "k", "e", "f", "i", "l", "e">>
n_node_modules == <<"n", "o", "d", "e", "_", "m", "o", "d", "u", "l", "e", "s">>
n_target == <<"t", "a", "r", "g", "e", "t">>
n_bin == <<"b", "i", "n">>

\* Config::new: output_file
output_file == <<"c", "o", "d", "e", "_", "o", "u", "t", "p", "u", "t", ".", "t", "x", "t">>

\* Config::new: ignored_dirs
ignored_dirs ==
    << <<".", "g", "i", "t">>,
       n_node_modules,
       n_target,
       <<".", "i", "d", "e", "a">>,
       <<"v", "e", "n", "v">>,
       n_bin,
       <<"o", "b", "j">>,
       <<"D", "e", "b", "u", "g">>,
       <<"R", "e", "l", "e", "a", "s", "e">> >>

\* Config::new: allowed_extensions
allowed_extensions ==
    << <<"r", "s">>, <<"j", "s">>, <<"p", "y">>, <<"c", "p", "p">>, <<"c">>,
       <<"j", "a", "v", "a">>, <<"g", "o">>, <<"t", "s">>,
       <<"c", "s">>, <<"c", "s", "p", "r", "o", "j">>, <<"s", "l", "n">>,
       <<"c", "s", "h", "t", "m", "l">>, <<"r", "a", "z", "o", "r">>,
       <<"j", "s", "o", "n">>, <<"x", "m", "l">>,
       <<"c", "o", "n", "f", "i", "g">>, <<"y", "m", "l">>,
       <<"y", "a", "m", "l">> >>

\* Vec::contains / iter().any(==)
Contains(vec, x) == \E i \in DOMAIN vec : vec[i] = x

-----------------------------------------------------------------------------
(* The directory tree *)

Root == 0
Outside == -1
Chain == 1 .. MaxDepth
FileA == MaxDepth + 1
FileB == MaxDepth + 2
OutNode == MaxDepth + 3
Slots == Chain \cup {FileA, FileB}

MainText == "fn main(){}"
InvalidUtf8 == "\\xff\\xfe"

Absent == [name |-> <<>>, kind |-> "none", content |-> ""]
File(n, c) == [name |-> n, kind |-> "file", content |-> c]
Dir(n) == [name |-> n, kind |-> "dir", content |-> ""]

ChainEntries ==
    { Absent, Dir(n_src), Dir(n_node_modules),
      File(n_c_js, MainText), File(n_bin, MainText), File(n_dot_json, MainText),
      File(n_a_tar_gz, MainText), File(n_Makefile, MainText) }
FileAEntries ==
    { File(n_a_rs, MainText), File(n_a_rs, InvalidUtf8), File(n_A_RS, MainText) }
FileBEntries == { Absent, File(n_b_txt, MainText) }

Roots ==
    { [name |-> n_dot, exists |-> TRUE], [name |-> n_proj, exists |-> TRUE],
      [name |-> n_target, exists |-> TRUE], [name |-> n_proj, exists |-> FALSE] }

ParentOf(n) ==
    IF n = OutNode THEN cwd
    ELSE IF n \in Chain THEN n - 1
    ELSE Root

Exists(n) ==
    IF n = Root THEN rootExists
    ELSE IF n = OutNode THEN outExists /\ cwd # Outside
    ELSE fs[n].kind # "none"

IsDir(n) ==
    IF n = Root THEN TRUE
    ELSE IF n = OutNode THEN FALSE
    ELSE fs[n].kind = "dir"

IsFile(n) ==
    IF n = Root THEN FALSE
    ELSE IF n = OutNode THEN TRUE
    ELSE fs[n].kind = "file"

NameOf(n) ==
    IF n = Root THEN rootName
    ELSE IF n = OutNode THEN output_file
    ELSE fs[n].name

RECURSIVE RelPath(_)
RelPath(n) == IF n = Root THEN <<>> ELSE Append(RelPath(ParentOf(n)), NameOf(n))

\* DirEntry::path
PathOf(n) == <<rootName>> \o RelPath(n)

\* DirEntry::depth
DepthOf(n) == Len(RelPath(n))

Nodes == {Root} \cup Slots \cup {OutNode}

\* The entries of directory d in the order the file system lists them.
EnumOrder == <<FileA>> \o [i \in 1 .. MaxDepth |-> i] \o <<FileB, OutNode>>
Children(d) ==
    SelectSeq(EnumOrder, LAMBDA n : Exists(n) /\ ParentOf(n) = d)

-----------------------------------------------------------------------------
(* Paths and names (std::path, walkdir::DirEntry) *)

None == [some |-> FALSE, val |-> <<>>]
Some(v) == [some |-> TRUE, val |-> v]

\* Path::file_name of the path of node n: none for a path ending in "."
PathFileName(n) == IF NameOf(n) = n_dot THEN None ELSE Some(NameOf(n))

\* walkdir DirEntry::file_name: the last component, the whole path if there is none
EntryFileName(n) == NameOf(n)

\* position of the last "." among the first i characters of name, 0 if none
RECURSIVE RFindDot(_, _)
RFindDot(name, i) ==
    IF i = 0 THEN 0
    ELSE IF name[i] = "." THEN i
    ELSE RFindDot(name, i - 1)

\* an extension taken as whatever follows the last ".", wherever that "." stands
Extension_AfterAnyDot(name) ==
    LET k == RFindDot(name, Len(name)) IN
    IF k = 0 THEN None ELSE Some(SubSeq(name, k + 1, Len(name)))

\* Path::extension: the name is split at its last "."; there is no extension
\* when the name has no "." or nothing stands before the last "."
Extension(name) ==
    LET k == RFindDot(name, Len(name)) IN
    IF name = <<".", ".">> THEN None
    ELSE IF k = 0 THEN None
    ELSE IF k = 1 THEN None
    ELSE Some(SubSeq(name, k + 1, Len(name)))

\* is_ignored
is_ignored(entry, dirs) == Contains(dirs, EntryFileName(entry))

\* "    ".repeat(depth)
Repeat(s, k) == [i \in 1 .. k |-> s]

-----------------------------------------------------------------------------
(* WalkDir::new(root).into_iter().filter_entry(..) *)

NewWalker == [start |-> TRUE, stack |-> <<>>]

Yield(tag, n, w) == [tag |-> tag, node |-> n, w |-> w]

\* the list IntoIter::push puts on the stack for directory d
ReadDir(d) ==
    IF d \in unreadable
    THEN << [tag |-> "err", node |-> d] >>
    ELSE [i \in 1 .. Len(Children(d)) |-> [tag |-> "ok", node |-> Children(d)[i]]]

Pop(w) == [w EXCEPT !.stack = SubSeq(w.stack, 1, Len(w.stack) - 1)]

\* IntoIter::handle_entry: a directory is opened before it is yielded
HandleEntry(w, n) ==
    Yield("ok", n, IF IsDir(n) THEN [w EXCEPT !.stack = Append(w.stack, ReadDir(n))] ELSE w)

\* IntoIter::next
RECURSIVE IterNext(_)
IterNext(w) ==
    IF w.start
    THEN IF rootExists
         THEN HandleEntry([w EXCEPT !.start = FALSE], Root)
         ELSE Yield("err", Root, [w EXCEPT !.start = FALSE])
    ELSE IF w.stack = <<>>
    THEN Yield("none", Root, w)
    ELSE LET top == w.stack[Len(w.stack)] IN
         IF top = <<>>
         THEN IterNext(Pop(w))
         ELSE LET item == Head(top)
                  w1 == [w EXCEPT !.stack[Len(w.stack)] = Tail(top)]
              IN  IF item.tag = "err"
                  THEN Yield("err", item.node, w1)
                  ELSE HandleEntry(w1, item.node)

\* a walker that filters the entry but forgets to leave its directory
SkipCurrentDir_Forgotten(w) == w

\* IntoIter::skip_current_dir
SkipCurrentDir(w) == IF w.stack = <<>> THEN w ELSE Pop(w)

\* a filter that yields a directory with an ignored name and only keeps out of it
FilterNext_ListsPruned(w) ==
    LET r == IterNext(w) IN
    IF r.tag = "ok" /\ is_ignored(r.node, ignored_dirs) /\ IsDir(r.node)
    THEN [r EXCEPT !.w = SkipCurrentDir(r.w)]
    ELSE r

\* FilterEntry::next with the predicate |e| !is_ignored(e, &config.ignored_dirs)
RECURSIVE FilterNext(_)
FilterNext(w) ==
    LET r == IterNext(w) IN
    IF r.tag = "ok" /\ is_ignored(r.node, ignored_dirs)
    THEN FilterNext(IF IsDir(r.node) THEN SkipCurrentDir(r.w) ELSE r.w)
    ELSE r

-----------------------------------------------------------------------------
(* Output lines *)

TitleLine == [kind |-> "title"]
RootLine == [kind |-> "root", path |-> <<rootName>>]
TreeLine(n) ==
    [kind |-> "tree", prefix |-> Repeat("    ", DepthOf(n)),
     name |-> IF PathFileName(n).some THEN PathFileName(n).val ELSE <<>>]
ContentsHeader == [kind |-> "chdr"]
FileHeader(n) == [kind |-> "fhdr", path |-> PathOf(n)]
TextLine(t) == [kind |-> "text", text |-> t]
ReadErrorLine(e) == [kind |-> "rerr", reason |-> e]

\* fs::read_to_string
ReadToString(n) ==
    IF n = OutNode THEN [ok |-> TRUE, val |-> output]
    ELSE IF fs[n].content = InvalidUtf8
    THEN [ok |-> FALSE, val |-> "stream did not contain valid UTF-8"]
    ELSE [ok |-> TRUE, val |-> fs[n].content]

Say(msgs) == stdout' = stdout \o msgs

\* writeln!(output, ..)?
WriteOk(line) == ~diskFull /\ output' = Append(output, line)
WriteFails == diskFull /\ output' = output /\ err' = "write" /\ pc' = "err"

-----------------------------------------------------------------------------
(* The program *)

n_cmd == <<"c", "o", "d", "e", "_", "t", "r", "e", "e">>
n_extra == <<"-", "v">>

\* the command lines of 1 .. MaxArgs words that name root
ArgLists(root) ==
    { [i \in 1 .. k |-> IF i = 1 THEN n_cmd ELSE IF i = 2 THEN root ELSE n_extra] :
        k \in 1 .. MaxArgs }

FaultCount(u, full, ro) ==
    Cardinality(u) + (IF full THEN 1 ELSE 0) + (IF ro THEN 1 ELSE 0)

Init ==
    /\ \E r \in Roots :
        /\ rootName = r.name
        /\ rootExists = r.exists
        /\ args \in ArgLists(r.name)
        /\ fs \in [Slots -> ChainEntries \cup FileAEntries \cup FileBEntries]
        /\ fs[FileA] \in FileAEntries
        /\ fs[FileB] \in FileBEntries
        /\ \A k \in Chain :
            /\ fs[k] \in ChainEntries
            /\ (k > 1 /\ fs[k - 1].kind # "dir") => fs[k] = Absent
        /\ ~r.exists => \A n \in Slots : n # FileA => fs[n] = Absent
        /\ cwd \in {Outside, Root, 1}
        /\ r.name = n_dot => cwd = Root
        /\ ~r.exists => cwd = Outside
        /\ r.name = n_target => cwd = Outside
        /\ cwd = 1 => fs[1].kind = "dir"
    /\ unreadable \in SUBSET ({Root} \cup Chain)
    /\ \A d \in unreadable : Exists(d) /\ IsDir(d)
    /\ diskFull \in BOOLEAN
    /\ createFails \in BOOLEAN
    /\ FaultCount(unreadable, diskFull, createFails) <= MaxFaults
    /\ pc = "main"
    /\ outExists \in BOOLEAN
    /\ startedWith = <<outExists>>
    /\ output = IF outExists THEN << [kind |-> "old"] >> ELSE <<>>
    /\ walker = NewWalker
    /\ cur = Root
    /\ err = "none"
    /\ stdout = <<>>
    /\ stderr = <<>>
    /\ exitCode = -1
    /\ run = 1
    /\ prevOutput = <<>>

\* a main that creates the output file before it looks at its arguments
Main_CreatesFirst ==
    /\ pc = "main"
    /\ outExists' = TRUE
    /\ output' = <<>>
    /\ IF Len(args) # 2
       THEN /\ Say(<< [msg |-> "Arguments received", arg |-> args],
                      [msg |-> "Usage: <directory_path>", arg |-> args[1]],
                      [msg |-> "Example: .", arg |-> args[1]] >>)
            /\ exitCode' = 1
            /\ pc' = "usage"
       ELSE /\ Say(<< [msg |-> "Arguments received", arg |-> args],
                      [msg |-> "Analyzing directory", arg |-> <<args[2]>>],
                      [msg |-> "Output will be written to", arg |-> <<output_file>>] >>)
            /\ exitCode' = exitCode
            /\ pc' = "create"
    /\ UNCHANGED <<envVars, unreadable, diskFull, args, walker,
                   cur, err, stderr, run, prevOutput>>

\* main, lines 152-165
Main ==
    /\ pc = "main"
    /\ IF Len(args) # 2
       THEN /\ Say(<< [msg |-> "Arguments received", arg |-> args],
                      [msg |-> "Usage: <directory_path>", arg |-> args[1]],
                      [msg |-> "Example: .", arg |-> args[1]] >>)
            /\ exitCode' = 1
            /\ pc' = "usage"
       ELSE /\ Say(<< [msg |-> "Arguments received", arg |-> args],
                      [msg |-> "Analyzing directory", arg |-> <<args[2]>>],
                      [msg |-> "Output will be written to", arg |-> <<output_file>>] >>)
            /\ exitCode' = exitCode
            /\ pc' = "create"
    /\ UNCHANGED <<envVars, unreadable, diskFull, args, outExists, output, walker,
                   cur, err, stderr, run, prevOutput>>

\* an output file opened for appending instead of being truncated
CreateOutput_Appends ==
    /\ pc = "create"
    /\ IF ~createFails
       THEN /\ outExists' = TRUE
            /\ output' = output
            /\ Say(<< [msg |-> "Creating output file at", arg |-> <<output_file>>],
                      [msg |-> "Processing directory", arg |-> <<rootName>>] >>)
            /\ pc' = "title"
            /\ err' = err
       ELSE /\ Say(<< [msg |-> "Creating output file at", arg |-> <<output_file>>] >>)
            /\ err' = "create"
            /\ pc' = "err"
            /\ UNCHANGED <<outExists, output>>
    /\ UNCHANGED <<envVars, unreadable, diskFull, args, walker, cur, stderr,
                   exitCode, run, prevOutput>>

\* process_directory, lines 58-61: File::create(&config.output_file)?
CreateOutput ==
    /\ pc = "create"
    /\ IF ~createFails
       THEN /\ outExists' = TRUE
            /\ output' = <<>>
            /\ Say(<< [msg |-> "Creating output file at", arg |-> <<output_file>>],
                      [msg |-> "Processing directory", arg |-> <<rootName>>] >>)
            /\ pc' = "title"
            /\ err' = err
       ELSE /\ Say(<< [msg |-> "Creating output file at", arg |-> <<output_file>>] >>)
            /\ err' = "create"
            /\ pc' = "err"
            /\ UNCHANGED <<outExists, output>>
    /\ UNCHANGED <<envVars, unreadable, diskFull, args, walker, cur, stderr,
                   exitCode, run, prevOutput>>

\* process_directory, line 63
WriteTitle ==
    /\ pc = "title"
    /\ \/ WriteOk(TitleLine) /\ pc' = "rootline" /\ err' = err
       \/ WriteFails
    /\ UNCHANGED <<envVars, unreadable, diskFull, args, outExists, walker, cur,
                   stdout, stderr, exitCode, run, prevOutput>>

\* an orchestration that starts the contents pass right after the root line
WriteRootLine_ContentsFirst ==
    /\ pc = "rootline"
    /\ \/ /\ WriteOk(RootLine)
          /\ Say(<< [msg |-> "Writing file contents..."],
                    [msg |-> "Starting file content writing..."] >>)
          /\ walker' = NewWalker
          /\ pc' = "contents"
          /\ err' = err
       \/ WriteFails /\ UNCHANGED <<walker, stdout>>
    /\ UNCHANGED <<envVars, unreadable, diskFull, args, outExists, cur, stderr,
                   exitCode, run, prevOutput>>

\* process_directory, lines 64-67, and write_directory_tree, lines 82-85
WriteRootLine ==
    /\ pc = "rootline"
    /\ \/ /\ WriteOk(RootLine)
          /\ Say(<< [msg |-> "Generating directory tree..."],
                    [msg |-> "Starting directory tree generation..."] >>)
          /\ walker' = NewWalker
          /\ pc' = "tree"
          /\ err' = err
       \/ WriteFails /\ UNCHANGED <<walker, stdout>>
    /\ UNCHANGED <<envVars, unreadable, diskFull, args, outExists, cur, stderr,
                   exitCode, run, prevOutput>>

\* write_directory_tree, lines 83-101: one turn of the loop, or its end
TreeStep ==
    /\ pc = "tree"
    /\ LET r == FilterNext(walker) IN
       /\ walker' = r.w
       /\ IF r.tag = "none"
          THEN /\ Say(<< [msg |-> "Directory tree generation complete!"] >>)
               /\ pc' = "chdr"
               /\ UNCHANGED <<output, err>>
          ELSE IF r.tag = "err"
          THEN /\ err' = "walk"
               /\ pc' = "err"
               /\ UNCHANGED <<output, stdout>>
          ELSE /\ Say(<< [msg |-> "Processing path", arg |-> PathOf(r.node)] >>)
               /\ \/ WriteOk(TreeLine(r.node)) /\ pc' = "tree" /\ err' = err
                  \/ WriteFails
    /\ UNCHANGED <<envVars, unreadable, diskFull, args, outExists, cur, stderr,
                   exitCode, run, prevOutput>>

\* process_directory, lines 68-71, and write_file_contents, lines 109-112
WriteContentsHeader ==
    /\ pc = "chdr"
    /\ \/ /\ WriteOk(ContentsHeader)
          /\ Say(<< [msg |-> "Writing file contents..."],
                    [msg |-> "Starting file content writing..."] >>)
          /\ walker' = NewWalker
          /\ pc' = "contents"
          /\ err' = err
       \/ WriteFails /\ UNCHANGED <<walker, stdout>>
    /\ UNCHANGED <<envVars, unreadable, diskFull, args, outExists, cur, stderr,
                   exitCode, run, prevOutput>>

\* a contents pass that drops an entry it cannot read and goes on
ContentsStep_SkipsErrors ==
    /\ pc = "contents"
    /\ LET r == FilterNext(walker) IN
       /\ walker' = r.w
       /\ IF r.tag = "none"
          THEN /\ Say(<< [msg |-> "File content writing complete!"],
                         [msg |-> "Processing complete!"] >>)
               /\ pc' = "ok"
               /\ UNCHANGED <<output, err, cur>>
          ELSE IF r.tag = "err" \/ ~IsFile(r.node)
          THEN /\ pc' = "contents"
               /\ UNCHANGED <<output, err, stdout, cur>>
          ELSE LET ext == Extension(NameOf(r.node)) IN
               IF ext.some /\ Contains(allowed_extensions, ext.val)
               THEN /\ Say(<< [msg |-> "Checking file", arg |-> PathOf(r.node)],
                              [msg |-> "Processing code file", arg |-> PathOf(r.node)] >>)
                    /\ \/ /\ WriteOk(FileHeader(r.node))
                          /\ cur' = r.node
                          /\ pc' = "read"
                          /\ err' = err
                       \/ WriteFails /\ cur' = cur
               ELSE /\ Say(<< [msg |-> "Checking file", arg |-> PathOf(r.node)] >>)
                    /\ pc' = "contents"
                    /\ UNCHANGED <<output, err, cur>>
    /\ UNCHANGED <<envVars, unreadable, diskFull, args, outExists, stderr,
                   exitCode, run, prevOutput>>

\* write_file_contents, lines 110-125: one turn of the loop up to the header
\* of a selected file, or the end of the loop
ContentsStep ==
    /\ pc = "contents"
    /\ LET r == FilterNext(walker) IN
       /\ walker' = r.w
       /\ IF r.tag = "none"
          THEN /\ Say(<< [msg |-> "File content writing complete!"],
                         [msg |-> "Processing complete!"] >>)
               /\ pc' = "ok"
               /\ UNCHANGED <<output, err, cur>>
          ELSE IF r.tag = "err"
          THEN /\ err' = "walk"
               /\ pc' = "err"
               /\ UNCHANGED <<output, stdout, cur>>
          ELSE IF ~IsFile(r.node)
          THEN /\ pc' = "contents"
               /\ UNCHANGED <<output, err, stdout, cur>>
          ELSE LET ext == Extension(NameOf(r.node)) IN
               IF ext.some /\ Contains(allowed_extensions, ext.val)
               THEN /\ Say(<< [msg |-> "Checking file", arg |-> PathOf(r.node)],
                              [msg |-> "Processing code file", arg |-> PathOf(r.node)] >>)
                    /\ \/ /\ WriteOk(FileHeader(r.node))
                          /\ cur' = r.node
                          /\ pc' = "read"
                          /\ err' = err
                       \/ WriteFails /\ cur' = cur
               ELSE /\ Say(<< [msg |-> "Checking file", arg |-> PathOf(r.node)] >>)
                    /\ pc' = "contents"
                    /\ UNCHANGED <<output, err, cur>>
    /\ UNCHANGED <<envVars, unreadable, diskFull, args, outExists, stderr,
                   exitCode, run, prevOutput>>

\* a read failure returned to the caller like every other error
ReadStep_Propagates ==
    /\ pc = "read"
    /\ LET res == ReadToString(cur) IN
       IF res.ok
       THEN \/ /\ WriteOk(TextLine(res.val))
               /\ Say(<< [msg |-> "Successfully wrote contents of", arg |-> PathOf(cur)] >>)
               /\ pc' = "contents"
               /\ err' = err
            \/ WriteFails /\ stdout' = stdout
       ELSE /\ err' = "read"
            /\ pc' = "err"
            /\ UNCHANGED <<output, stdout>>
    /\ UNCHANGED <<envVars, unreadable, diskFull, args, outExists, walker, cur,
                   stderr, exitCode, run, prevOutput>>

\* write_file_contents, lines 127-136
ReadStep ==
    /\ pc = "read"
    /\ LET res == ReadToString(cur) IN
       IF res.ok
       THEN \/ /\ WriteOk(TextLine(res.val))
               /\ Say(<< [msg |-> "Successfully wrote contents of", arg |-> PathOf(cur)] >>)
               /\ pc' = "contents"
               /\ err' = err
            \/ WriteFails /\ stdout' = stdout
       ELSE /\ Say(<< [msg |-> "Error reading file", arg |-> PathOf(cur), reason |-> res.val] >>)
            /\ \/ WriteOk(ReadErrorLine(res.val)) /\ pc' = "contents" /\ err' = err
               \/ WriteFails
    /\ UNCHANGED <<envVars, unreadable, diskFull, args, outExists, walker, cur,
                   stderr, exitCode, run, prevOutput>>

\* main, lines 168-171
MainOk ==
    /\ pc = "ok"
    /\ Say(<< [msg |-> "Successfully generated code output at", arg |-> <<output_file>>] >>)
    /\ exitCode' = 0
    /\ pc' = "done"
    /\ UNCHANGED <<envVars, unreadable, diskFull, args, outExists, output, walker,
                   cur, err, stderr, run, prevOutput>>

\* main, lines 172-175: the error is reported and returned, which ends the
\* process with status 1
MainErr ==
    /\ pc = "err"
    /\ stderr' = stderr \o << [msg |-> "Error processing directory", error |-> err],
                              [msg |-> "Error", error |-> err] >>
    /\ exitCode' = 1
    /\ pc' = "failed"
    /\ UNCHANGED <<envVars, unreadable, diskFull, args, outExists, output, walker,
                   cur, err, stdout, run, prevOutput>>

Running == {"create", "title", "rootline", "tree", "chdr", "contents", "read"}

\* the environment: a directory of the tree stops being listable
DirFails ==
    /\ pc \in Running
    /\ \E d \in ({Root} \cup Chain) \ unreadable :
        /\ Exists(d) /\ IsDir(d)
        /\ FaultCount(unreadable, diskFull, createFails) < MaxFaults
        /\ unreadable' = unreadable \cup {d}
    /\ UNCHANGED <<envVars, diskFull, pc, args, outExists, output, walker, cur,
                   err, stdout, stderr, exitCode, run, prevOutput>>

\* the environment: writes to the output file start to fail
DiskFills ==
    /\ pc \in Running
    /\ ~diskFull
    /\ FaultCount(unreadable, diskFull, createFails) < MaxFaults
    /\ diskFull' = TRUE
    /\ UNCHANGED <<envVars, unreadable, pc, args, outExists, output, walker, cur,
                   err, stdout, stderr, exitCode, run, prevOutput>>

\* the same command is given again, the file system as the last one left it
Rerun ==
    /\ pc \in {"usage", "done", "failed"}
    /\ run < MaxRuns
    /\ run' = run + 1
    /\ prevOutput' = output
    /\ startedWith' = Append(startedWith, outExists)
    /\ pc' = "main"
    /\ walker' = NewWalker
    /\ cur' = Root
    /\ err' = "none"
    /\ stdout' = <<>>
    /\ stderr' = <<>>
    /\ exitCode' = -1
    /\ UNCHANGED <<rootName, rootExists, fs, cwd, createFails, unreadable, diskFull,
                   args, outExists, output>>

Step ==
    \/ Main
    \/ CreateOutput
    \/ WriteTitle
    \/ WriteRootLine
    \/ TreeStep
    \/ WriteContentsHeader
    \/ ContentsStep
    \/ ReadStep
    \/ MainOk
    \/ MainErr

Next == Step \/ DirFails \/ DiskFills

Spec == Init /\ [][Next]_vars

NextRerun == Step \/ Rerun

SpecRerun == Init /\ [][NextRerun]_vars

TypeOK ==
    /\ pc \in {"main", "usage", "create", "title", "rootline", "tree", "chdr",
               "contents", "read", "ok", "err", "done", "failed"}
    /\ exitCode \in {-1, 0, 1}
    /\ diskFull \in BOOLEAN
    /\ createFails \in BOOLEAN
    /\ unreadable \subseteq ({Root} \cup Chain)


-----------------------------------------------------------------------------
(* Vocabulary of the properties *)

Range(q) == { q[i] : i \in DOMAIN q }

IgnoredNames == Range(ignored_dirs)
AllowedExtensions == Range(allowed_extensions)

\* the directories above n, the root included
RECURSIVE Ancestors(_)
Ancestors(n) ==
    IF n = Root THEN {}
    ELSE IF ParentOf(n) = Outside THEN {}
    ELSE {ParentOf(n)} \cup Ancestors(ParentOf(n))

\* n lies beneath a directory met during the descent whose name is ignored
BeneathIgnoredDir(n) ==
    \E a \in Ancestors(n) \ {Root} : NameOf(a) \in IgnoredNames

\* n is an entry the two passes come to: neither n nor anything above it, the
\* root included, bears an ignored name
Visited(n) ==
    /\ Exists(n)
    /\ rootExists
    /\ \A a \in Ancestors(n) \cup {n} : NameOf(a) \notin IgnoredNames

TreeSection == SelectSeq(output, LAMBDA l : l.kind = "tree")
ContentsSection == SelectSeq(output, LAMBDA l : l.kind \in {"fhdr", "text", "rerr"})

IndentedName(n) == [kind |-> "tree", prefix |-> [i \in 1 .. DepthOf(n) |-> "    "], name |-> NameOf(n)]
BlockHeader(n) == [kind |-> "fhdr", path |-> PathOf(n)]

\* C1: nothing beneath a directory with an ignored name, at any depth, has a
\* line in the tree section or a header in the contents section.
C1_IgnoredSubtreeAbsent ==
    \A n \in Nodes \ {Root} :
        (Exists(n) /\ BeneathIgnoredDir(n)) =>
            /\ IndentedName(n) \notin Range(output)
            /\ BlockHeader(n) \notin Range(output)

\* a finished run over a tree where node_modules holds an entry, and where the
\* walk went on to list b.txt after pruning it
C1_Witness ==
    /\ pc = "done"
    /\ fs[1] = Dir(n_node_modules)
    /\ Exists(2)
    /\ IndentedName(FileB) \in Range(output)
    /\ Exists(FileB)

\* the positions of "." in a name, and the text after its final "."
DotsOf(name) == { i \in DOMAIN name : name[i] = "." }
FinalDot(name) == CHOOSE i \in DotsOf(name) : \A j \in DotsOf(name) : j <= i
AfterFinalDot(name) == [i \in 1 .. (Len(name) - FinalDot(name)) |-> name[FinalDot(name) + i]]

VisitedFiles == { n \in Nodes : Visited(n) /\ IsFile(n) }

\* C2 as claimed: after a successful run a visited file has a block iff the text
\* after the final "." of its name is an allowed extension, names that start
\* with their only "." included.
C2_AfterFinalDotDecides ==
    pc = "done" =>
        \A n \in VisitedFiles :
            BlockHeader(n) \in Range(output) <=>
                /\ DotsOf(NameOf(n)) # {}
                /\ AfterFinalDot(NameOf(n)) \in AllowedExtensions

\* C2 as amended: after a successful run a visited file has a block iff its
\* name has a "." that is not its first character and the text after the final
\* "." is an allowed extension, compared exactly; a name without ".", and a
\* name whose only "." is its first character, has none.
C2_ExtensionDecides ==
    pc = "done" =>
        \A n \in VisitedFiles :
            BlockHeader(n) \in Range(output) <=>
                /\ DotsOf(NameOf(n)) # {}
                /\ FinalDot(NameOf(n)) > 1
                /\ AfterFinalDot(NameOf(n)) \in AllowedExtensions

\* a finished run that visited .json and wrote no block for it, next to a.rs
\* with a block and A.RS or a.tar.gz or Makefile without
C2_Witness ==
    /\ pc = "done"
    /\ \E n \in VisitedFiles : NameOf(n) = n_dot_json /\ BlockHeader(n) \notin Range(output)
    /\ \E n \in VisitedFiles : NameOf(n) = n_a_rs /\ BlockHeader(n) \in Range(output)

\* C3 as claimed: the root is not tested against the ignored names, so a
\* successful run on a root named like one lists the root and every entry
\* below it that has no ignored name on its way.
C3_RootNeverTested ==
    (pc = "done" /\ rootName \in IgnoredNames) =>
        /\ IndentedName(Root) \in Range(output)
        /\ \A n \in Nodes \ {Root} :
            (Exists(n) /\ \A a \in (Ancestors(n) \cup {n}) \ {Root} : NameOf(a) \notin IgnoredNames)
                => IndentedName(n) \in Range(output)

\* the files with a block: visited, with an extension that is allowed
Selected(n) ==
    /\ n \in VisitedFiles
    /\ DotsOf(NameOf(n)) # {}
    /\ FinalDot(NameOf(n)) > 1
    /\ AfterFinalDot(NameOf(n)) \in AllowedExtensions

HasInvalidText(n) == n \in Slots /\ fs[n].content = InvalidUtf8

\* C4: a file that cannot be read as text does not end the run.  Every error
\* line stands right after a file header; no run fails for a read error; and a
\* run that succeeds has, for every selected file, its header followed by its
\* text, or by one error line when it cannot be read, and ends with status 0.
C4_ReadFailureNotFatal ==
    /\ \A i \in DOMAIN output :
        output[i].kind = "rerr" => (i > 1 /\ output[i - 1].kind = "fhdr")
    /\ pc \in {"err", "failed"} => err \in {"create", "walk", "write"}
    /\ pc = "done" =>
        /\ exitCode = 0
        /\ \A n \in Nodes : Selected(n) =>
            \E i \in DOMAIN output :
                /\ output[i] = BlockHeader(n)
                /\ i < Len(output)
                /\ output[i + 1].kind = (IF HasInvalidText(n) THEN "rerr" ELSE "text")
                /\ (i + 1 < Len(output)) => output[i + 2].kind = "fhdr"

\* a successful run in which a.rs could not be read and the block of a later
\* file follows its error line
C4_Witness ==
    /\ pc = "done"
    /\ exitCode = 0
    /\ \E i, j \in DOMAIN output :
        /\ i < j
        /\ output[i].kind = "rerr"
        /\ output[j].kind = "text"

\* what a step may do around an error of the walk
C5_Abort ==
    /\ (pc \in {"tree", "contents"} /\ FilterNext(walker).tag = "err" /\ walker' # walker)
        => (pc' = "err" /\ err' = "walk" /\ output' = output)
    /\ pc = "err"
        => /\ pc' = "failed"
           /\ exitCode' = 1
           /\ Len(stderr') > Len(stderr)
           /\ \E i \in DOMAIN stderr' : stderr'[i].error = err
           /\ output' = output
    /\ pc = "failed" => (pc' = "failed" /\ output' = output)
    /\ (pc' = "err" /\ err' = "walk" /\ ~rootExists)
        => output' = << [kind |-> "title"], [kind |-> "root", path |-> <<rootName>>] >>

\* C5: an error of the walk ends the run in either pass.  When the walk yields
\* an error the pass returns it at once and writes nothing; main then reports
\* it on the error stream and the process ends with status 1; nothing is
\* written to the output file from then on; and for a root that does not exist
\* the file holds the title and the root line only.
C5_TraversalErrorFatal == [][C5_Abort]_vars

\* a run that failed in the second pass: the tree section and the contents
\* header are in the file, the status is 1
C5_Witness ==
    /\ pc = "failed"
    /\ err = "walk"
    /\ exitCode = 1
    /\ \E i \in DOMAIN output : output[i].kind = "chdr"
    /\ stderr # <<>>

\* the place of a line in the fixed order of the document
Rank(kind) ==
    CASE kind = "title" -> 1
      [] kind = "root" -> 2
      [] kind = "tree" -> 3
      [] kind = "chdr" -> 4
      [] kind \in {"fhdr", "text", "rerr"} -> 5
      [] OTHER -> 0

\* C6: the writes come in one order.  Lines left from before are in the file
\* only until it is created, and then none of them; the first line written is
\* the title and the second the root line, each once; tree lines come before
\* the contents header, which is written once, and every header, text and
\* error line of the contents section comes after it.
C6_WriteOrder ==
    /\ (\E i \in DOMAIN output : output[i].kind = "old")
        => /\ pc \in {"main", "usage", "create", "err", "failed"}
           /\ \A i \in DOMAIN output : output[i].kind = "old"
    /\ pc \in {"title", "rootline", "tree", "chdr", "contents", "read", "ok", "done"}
        => outExists
    /\ (\A i \in DOMAIN output : output[i].kind # "old") =>
        /\ \A i \in DOMAIN output :
            /\ (i = 1) <=> (output[i].kind = "title")
            /\ (i = 2) <=> (output[i].kind = "root")
            /\ \A j \in DOMAIN output : i < j => Rank(output[i].kind) <= Rank(output[j].kind)
            /\ Rank(output[i].kind) = 5 => \E j \in 1 .. (i - 1) : output[j].kind = "chdr"
        /\ Cardinality({ i \in DOMAIN output : output[i].kind = "chdr" }) <= 1
    /\ pc = "done" => \E i \in DOMAIN output : output[i].kind = "chdr"

\* a finished run whose file holds tree lines and, after the contents header, a block
C6_Witness ==
    /\ pc = "done"
    /\ Len(TreeSection) >= 2
    /\ Len(ContentsSection) >= 2
    /\ startedWith[1]

\* what the tree section is claimed to list: every entry that is not a
\* directory with an ignored name and does not lie beneath one
ClaimedListed ==
    { n \in Nodes :
        /\ Exists(n)
        /\ ~BeneathIgnoredDir(n)
        /\ ~(n # Root /\ IsDir(n) /\ NameOf(n) \in IgnoredNames) }

\* C7 as claimed: after a successful run the tree section has one line per
\* entry that is not ignored, the root's own line included, a file named like an
\* ignored directory is listed, and each line is indented by its depth.  It is
\* stated for a root whose own name is not ignored.
C7_TreeLineCount ==
    (pc = "done" /\ rootName \notin IgnoredNames) =>
        /\ Len(TreeSection) = Cardinality(ClaimedListed)
        /\ \A n \in ClaimedListed \ {Root} : IndentedName(n) \in Range(output)

\* what a step may do when the root-path argument is missing
C8_Step ==
    /\ (pc = "main" /\ Len(args) < 2) =>
        /\ pc' = "usage"
        /\ exitCode' = 1
        /\ output' = output
        /\ outExists' = outExists
        /\ \E i \in DOMAIN stdout' :
            stdout'[i] = [msg |-> "Usage: <directory_path>", arg |-> args[1]]
        /\ \E i \in DOMAIN stdout' :
            stdout'[i] = [msg |-> "Example: .", arg |-> args[1]]
    /\ pc = "usage" => (pc' = "usage" /\ output' = output /\ outExists' = outExists)

\* C8: without the root-path argument main prints the usage line and the
\* example line, both with the command name, ends with status 1 and leaves
\* code_output.txt as it was; nothing runs after that.
C8_UsageErrorLeavesOutput == [][C8_Step]_vars

\* a usage error with an older code_output.txt still holding what it held
C8_Witness ==
    /\ pc = "usage"
    /\ Len(args) = 1
    /\ exitCode = 1
    /\ startedWith[1]
    /\ output = << [kind |-> "old"] >>

Finished == pc \in {"usage", "done", "failed"}

\* C9: a second run of the same command over the same tree leaves the same
\* output file as the first, also when the file lies in the tree that is
\* walked and was not there before the first run.
C9_Deterministic == (run > 1 /\ Finished) => output = prevOutput

\* a second successful run with the working directory in the tree, where the
\* first run began without code_output.txt and both runs listed it
C9_Witness ==
    /\ run = 2
    /\ pc = "done"
    /\ startedWith = <<FALSE, TRUE>>
    /\ cwd # Outside
    /\ IndentedName(OutNode) \in Range(output)
    /\ Len(ContentsSection) >= 2

\* the tree of the scenario: a.rs, b.txt and node_modules/c.js in proj, the
\* output file outside
Scenario ==
    /\ rootName = n_proj
    /\ rootExists
    /\ cwd = Outside
    /\ fs[FileA] = [name |-> n_a_rs, kind |-> "file", content |-> "fn main(){}"]
    /\ fs[FileB] = [name |-> n_b_txt, kind |-> "file", content |-> "fn main(){}"]
    /\ fs[1] = [name |-> n_node_modules, kind |-> "dir", content |-> ""]
    /\ fs[2] = [name |-> n_c_js, kind |-> "file", content |-> "fn main(){}"]
    /\ \A k \in Chain : k > 2 => fs[k].kind = "none"

Line(depth, name) == [kind |-> "tree", prefix |-> [i \in 1 .. depth |-> "    "], name |-> name]

\* C10 as claimed: in the scenario the tree section lists a.rs, b.txt and
\* node_modules but not c.js, and the contents section is the block of a.rs.
C10_ScenarioAsClaimed ==
    (Scenario /\ pc = "done") =>
        /\ Line(1, n_a_rs) \in Range(output)
        /\ Line(1, n_b_txt) \in Range(output)
        /\ Line(1, n_node_modules) \in Range(output)
        /\ Line(2, n_c_js) \notin Range(output)
        /\ ContentsSection = << [kind |-> "fhdr", path |-> <<n_proj, n_a_rs>>],
                                [kind |-> "text", text |-> "fn main(){}"] >>

\* C10 as amended: in the scenario the tree section is the line of the root,
\* then a.rs and b.txt one level in; node_modules is not listed and c.js
\* neither; the contents section is the block of a.rs with its text.  In
\* general a directory with an ignored name met below the root is not listed
\* and not descended into.
C10_Scenario ==
    /\ (Scenario /\ pc = "done") =>
        /\ TreeSection = << Line(0, n_proj), Line(1, n_a_rs), Line(1, n_b_txt) >>
        /\ ContentsSection = << [kind |-> "fhdr", path |-> <<n_proj, n_a_rs>>],
                                [kind |-> "text", text |-> "fn main(){}"] >>
    /\ \A n \in Nodes \ {Root} :
        (Exists(n) /\ IsDir(n) /\ NameOf(n) \in IgnoredNames) =>
            /\ IndentedName(n) \notin Range(output)
            /\ \A m \in Nodes : (Exists(m) /\ n \in Ancestors(m)) => IndentedName(m) \notin Range(output)

\* the scenario, run to its successful end
C10_Witness ==
    /\ Scenario
    /\ pc = "done"
    /\ exitCode = 0
    /\ Len(TreeSection) = 3

====
